---- MODULE Spec2Model ----
(***************************************************************************)
(* Model of low-level/message_handlers/disk_msg_handler.py:                *)
(* DiskMsgHandler (run, _process_msg, _serialize_disk_status, _log_IEM)    *)
(* and Drive (parse_drive_mngr_path, parse_hpi_path, toDriveMngrJsonMsg,   *)
(* toHPIjsonMsg).                                                          *)
(*                                                                         *)
(* Python strings are sequences of one-character strings, so that split,   *)
(* lower, concatenation and substring search are computed, not assumed.    *)
(* Python's None is the value None below, which is no string.              *)
(*                                                                         *)
(* Two sets of producers drive the same handler. Spec: a message arrives   *)
(* while run() waits in its blocking read, drawn from Msgs, and the        *)
(* message being handled may arrive once more; _process_msg never reads    *)
(* the queue, so this loses none of its behaviours. QSpec: producers       *)
(* enqueue messages of QMsgs at any time, up to MaxQueue waiting messages; *)
(* FairQSpec adds the fairness of the handler's thread.                    *)
(* StatusSpec and PathSpec are Spec with other messages: events over the   *)
(* statuses _log_IEM and the SMART verdict tell apart, and events over the *)
(* shapes of a path. old_status is a history variable: it records what a   *)
(* call of _process_msg found, and no action reads it.                     *)
(*                                                                         *)
(* Not modelled: the last_update_time of the report and I/O failures of    *)
(* its file, json.loads of a message that arrives as text, a None result   *)
(* of _read_my_msgQ (skipped at lines 91 and 97), the wire format of the   *)
(* json_msgs classes (a message is the arguments of its constructor).      *)
(* A dict is iterated in an order the model leaves open (Orders).          *)
(***************************************************************************)
EXTENDS Naturals, Sequences, FiniteSets, TLC

VARIABLES
    msgQ,            \* the module's inbound queue (InternalMsgQ), oldest first
    pc,              \* position of run(): "read" (l.90), "loop" (l.95), "resched" (l.104)
    jsonMsg,         \* run()'s local jsonMsg: <<m>> once m was handed to _process_msg, <<>> before
    drvmngr_drives,  \* self._drvmngr_drives: serial number -> Drive
    hpi_drives,      \* self._hpi_drives: serial number -> Drive
    dmreport_file,   \* the "drives" list of the file self._dmreport_file
    written,         \* what the current _process_msg call wrote with _write_internal_msgQ, in order
    raised,          \* the exception that left the current _process_msg call, or "none"
    old_status       \* history: the status _drvmngr_drives held for the event's serial number
                     \* when the current _process_msg call began (None: no record, no event)

vars == <<msgQ, pc, jsonMsg, drvmngr_drives, hpi_drives, dmreport_file, written, raised, old_status>>

----------------------------------------------------------------------------
(* Strings *)

None == <<"None">>

\* the integer -1, the value of Drive._drive_num before a path is parsed
IntMinus1 == <<"int(-1)">>

\* an integer met where a path is expected
Int7 == <<"int(7)">>

IsStr(x) == x \notin {None, IntMinus1, Int7}

Slash == "/"

Underscore == "_"

S_disk == <<"d", "i", "s", "k">>

S_status == <<"s", "t", "a", "t", "u", "s">>

S_NA == <<"N", "/", "A">>

S_star == <<"*">>

\* str.lower() on one character
LowerChar(c) ==
    CASE c = "A" -> "a" [] c = "B" -> "b" [] c = "C" -> "c" [] c = "D" -> "d"
      [] c = "E" -> "e" [] c = "F" -> "f" [] c = "G" -> "g" [] c = "H" -> "h"
      [] c = "I" -> "i" [] c = "J" -> "j" [] c = "K" -> "k" [] c = "L" -> "l"
      [] c = "M" -> "m" [] c = "N" -> "n" [] c = "O" -> "o" [] c = "P" -> "p"
      [] c = "Q" -> "q" [] c = "R" -> "r" [] c = "S" -> "s" [] c = "T" -> "t"
      [] c = "U" -> "u" [] c = "V" -> "v" [] c = "W" -> "w" [] c = "X" -> "x"
      [] c = "Y" -> "y" [] c = "Z" -> "z" [] OTHER -> c

\* str.lower()
Lower(s) == [i \in 1..Len(s) |-> LowerChar(s[i])]

\* index of the first occurrence of the character c in s, 0 when there is none
FindChar(s, c) ==
    IF \E i \in 1..Len(s) : s[i] = c
    THEN CHOOSE i \in 1..Len(s) : s[i] = c /\ \A j \in 1..(i - 1) : s[j] # c
    ELSE 0

\* s.split(c): the segments of s between the occurrences of c
RECURSIVE Split(_, _)
Split(s, c) ==
    LET i == FindChar(s, c)
    IN  IF i = 0 THEN <<s>>
        ELSE <<SubSeq(s, 1, i - 1)>> \o Split(SubSeq(s, i + 1, Len(s)), c)

\* s.split(c, 1) with the separator left at the head of the second part
Split1KeepSep(s, c) ==
    LET i == FindChar(s, c)
    IN  IF i = 0 THEN <<s>>
        ELSE <<SubSeq(s, 1, i - 1), SubSeq(s, i, Len(s))>>

\* s.split(c, 1): at most one split, at the first occurrence of c
Split1(s, c) ==
    LET i == FindChar(s, c)
    IN  IF i = 0 THEN <<s>>
        ELSE <<SubSeq(s, 1, i - 1), SubSeq(s, i + 1, Len(s))>>

\* sub in s
Contains(s, sub) ==
    \E i \in 1..(Len(s) + 1) :
        /\ i + Len(sub) - 1 <= Len(s)
        /\ SubSeq(s, i, i + Len(sub) - 1) = sub

\* str(x)
Str(x) == IF IsStr(x) THEN x ELSE <<"N", "o", "n", "e">>

----------------------------------------------------------------------------
(* class Drive *)

host_id == <<"h">>

Drive(hostId, path, status, serialNumber, drawer, location, manufacturer, productName, productVersion, wwn) ==
    [hostId |-> hostId, path |-> path, status |-> status,
     serialNumber |-> serialNumber, drawer |-> drawer, location |-> location,
     manufacturer |-> manufacturer, productName |-> productName,
     productVersion |-> productVersion, wwn |-> wwn,
     enclosure |-> S_NA, drive_num |-> IntMinus1, filename |-> S_NA]

\* Drive(hostId, path, status, serialNumber) with the other arguments defaulted
Drive4(hostId, path, status, serialNumber) ==
    Drive(hostId, path, status, serialNumber, S_NA, S_NA, S_NA, S_NA, S_NA, S_NA)

\* parse_drive_mngr_path with the slot taken from path_values[1]
parse_drive_mngr_path_slot_from_1(drive) ==
    IF ~IsStr(drive.path) THEN [valid |-> FALSE, drive |-> drive]
    ELSE LET path_values == Split(drive.path, Slash)
         IN  IF Len(path_values) < 4 THEN [valid |-> FALSE, drive |-> drive]
             ELSE [valid |-> TRUE,
                   drive |-> [drive EXCEPT !.enclosure = path_values[1],
                                           !.drive_num = path_values[2],
                                           !.filename = path_values[4]]]

parse_drive_mngr_path(drive) ==
    IF ~IsStr(drive.path) THEN [valid |-> FALSE, drive |-> drive]
    ELSE LET path_values == Split(drive.path, Slash)
         IN  IF Len(path_values) < 4 THEN [valid |-> FALSE, drive |-> drive]
             ELSE [valid |-> TRUE,
                   drive |-> [drive EXCEPT !.enclosure = path_values[1],
                                           !.drive_num = path_values[3],
                                           !.filename = path_values[4]]]

\* parse_hpi_path with the test of line 527 as len(path_values) < 4
parse_hpi_path_needs_4(drive) ==
    IF ~IsStr(drive.path) THEN [valid |-> FALSE, drive |-> drive]
    ELSE LET path_values == Split(drive.path, Slash)
         IN  IF Len(path_values) < 4 THEN [valid |-> FALSE, drive |-> drive]
             ELSE [valid |-> TRUE,
                   drive |-> [drive EXCEPT !.enclosure = path_values[1],
                                           !.drive_num = path_values[3]]]

parse_hpi_path(drive) ==
    IF ~IsStr(drive.path) THEN [valid |-> FALSE, drive |-> drive]
    ELSE LET path_values == Split(drive.path, Slash)
         IN  IF Len(path_values) < 3 THEN [valid |-> FALSE, drive |-> drive]
             ELSE [valid |-> TRUE,
                   drive |-> [drive EXCEPT !.enclosure = path_values[1],
                                           !.drive_num = path_values[3]]]

toDriveMngrJsonMsg(drive, uuid) ==
    [kind |-> "DriveMngrMsg", enclosure |-> drive.enclosure,
     drive_num |-> drive.drive_num, status |-> drive.status,
     serial_number |-> drive.serialNumber, uuid |-> uuid]

toHPIjsonMsg(drive, uuid) ==
    [kind |-> "HPIDataMsg", hostId |-> drive.hostId, path |-> drive.path,
     drawer |-> drive.drawer, location |-> drive.location,
     manufacturer |-> drive.manufacturer, productName |-> drive.productName,
     productVersion |-> drive.productVersion,
     serialNumber |-> drive.serialNumber, wwn |-> drive.wwn,
     enclosure |-> drive.enclosure, uuid |-> uuid]

AckResponseMsg(request, response, uuid) ==
    [kind |-> "AckResponseMsg", request |-> request, response |-> response,
     uuid |-> uuid]

----------------------------------------------------------------------------
(* class DiskMsgHandler *)

EGRESS == "RabbitMQegressProcessor"

LOGGING == "LoggingMsgHandler"

\* self._write_internal_msgQ(toModule, msg), as an entry of written
Write(toModule, msg) == [to |-> toModule, msg |-> msg]

\* the mapping that holds k alone: the dict replaced ({k: v}) where the code
\* assigns to its key
PutAlone(m, k, v) == [x \in {k} |-> v]

\* the mapping m with m[k] = v (a dict assignment)
Put(m, k, v) == [x \in DOMAIN m \cup {k} |-> IF x = k THEN v ELSE m[x]]

\* the keys of the dict m in the order the iteration over it visits them;
\* order lists every possible key
IterKeys(m, order) == SelectSeq(order, LAMBDA k : k \in DOMAIN m)

\* the outcome of one _process_msg call
Outcome(drv, hpi, file, out, exc) ==
    [drvmngr_drives |-> drv, hpi_drives |-> hpi, dmreport_file |-> file,
     written |-> out, raised |-> exc]

S_empty == <<"e", "m", "p", "t", "y">>

S_unused == <<"u", "n", "u", "s", "e", "d">>

S_ok == <<"o", "k">>

S_inuse == <<"i", "n", "u", "s", "e">>

S_failed == <<"f", "a", "i", "l", "e", "d">>

S_smart == <<"s", "m", "a", "r", "t">>

S_inuse_ok == <<"i", "n", "u", "s", "e", "_", "o", "k">>

S_ok_none == <<"o", "k", "_", "n", "o", "n", "e">>

\* _log_IEM with the state compared as it is written, without .lower()
log_IEM_case_sensitive(drive) ==
    LET parts == Split1(Str(drive.status), Underscore)
    IN  IF Len(parts) # 2 THEN [exc |-> "ValueError", out |-> <<>>]
        ELSE
        LET status == parts[1]
            reason == parts[2]
            json_data == [enclosure_serial_number |-> drive.enclosure,
                          disk_serial_number |-> drive.serialNumber,
                          slot |-> drive.drive_num,
                          status |-> status, reason |-> reason]
            iem(log_msg) ==
                [exc |-> "none",
                 out |-> <<Write(LOGGING,
                                 [log_level |-> "LOG_WARNING", log_type |-> "IEM",
                                  log_msg |-> log_msg, json_data |-> json_data])>>]
        IN  IF status = S_empty \/ status = S_unused
            THEN iem(<<"IEC: 020001002: Drive removed">>)
            ELSE IF status = S_ok \/ status = S_inuse
            THEN iem(<<"IEC: 020001001: Drive added">>)
            ELSE IF status = S_failed
            THEN IF Contains(Lower(reason), S_smart)
                 THEN iem(<<"IEC: 020002002: SMART validation test has failed">>)
                 ELSE iem(<<"IEC: 000000000: Attempting to log unknown disk status/reason: ">>
                          \o status \o <<"/">> \o reason)
            ELSE [exc |-> "UnboundLocalError", out |-> <<>>]

\* _log_IEM: [exc, out]; exc is the exception it raises ("none": it returns),
\* out what it wrote to the logging module
log_IEM(drive) ==
    LET parts == Split1(Str(drive.status), Underscore)
    IN  IF Len(parts) # 2 THEN [exc |-> "ValueError", out |-> <<>>]
        ELSE
        LET status == parts[1]
            reason == parts[2]
            json_data == [enclosure_serial_number |-> drive.enclosure,
                          disk_serial_number |-> drive.serialNumber,
                          slot |-> drive.drive_num,
                          status |-> status, reason |-> reason]
            iem(log_msg) ==
                [exc |-> "none",
                 out |-> <<Write(LOGGING,
                                 [log_level |-> "LOG_WARNING", log_type |-> "IEM",
                                  log_msg |-> log_msg, json_data |-> json_data])>>]
        IN  IF Lower(status) = S_empty \/ Lower(status) = S_unused
            THEN iem(<<"IEC: 020001002: Drive removed">>)
            ELSE IF Lower(status) = S_ok \/ Lower(status) = S_inuse
            THEN iem(<<"IEC: 020001001: Drive added">>)
            ELSE IF Lower(status) = S_failed
            THEN IF Contains(Lower(reason), S_smart)
                 THEN iem(<<"IEC: 020002002: SMART validation test has failed">>)
                 ELSE iem(<<"IEC: 000000000: Attempting to log unknown disk status/reason: ">>
                          \o status \o <<"/">> \o reason)
            \* log_msg is assigned on no branch: line 443 reads an unbound local
            ELSE [exc |-> "UnboundLocalError", out |-> <<>>]

\* _serialize_disk_status: the drives list of the report file after the call
serialize_disk_status(drives, file, order) ==
    LET keys == IterKeys(drives, order)
        parts(k) == Split1(Str(drives[k].status), Underscore)
    IN  IF \E k \in DOMAIN drives : Len(parts(k)) # 2
        \* the unpacking at line 399 raises ValueError, caught at line 411
        \* before the file is opened
        THEN file
        ELSE [i \in 1..Len(keys) |->
                [serial_number |-> drives[keys[i]].serialNumber,
                 status |-> parts(keys[i])[1],
                 reason |-> parts(keys[i])[2]]]

\* accept_drivemanager without the comparison of lines 181-182: an incident
\* for every event of a known serial number
accept_drivemanager_always_logs(drive, serial_number, drv, hpi, file, order) ==
    LET sent == <<Write(EGRESS, toDriveMngrJsonMsg(drive, None))>>
        changed == serial_number \in DOMAIN drv
        iem == IF changed THEN log_IEM(drive) ELSE [exc |-> "none", out |-> <<>>]
        drives == Put(drv, serial_number, drive)
    IN  IF iem.exc # "none"
        THEN Outcome(drv, hpi, file, sent, iem.exc)
        ELSE Outcome(drives, hpi, serialize_disk_status(drives, file, order),
                     sent \o iem.out, "none")

\* accept_drivemanager with the update of line 186 moved before the
\* comparison of lines 180-182: the new status is compared with itself
accept_drivemanager_update_first(drive, serial_number, drv, hpi, file, order) ==
    LET sent == <<Write(EGRESS, toDriveMngrJsonMsg(drive, None))>>
        drives == Put(drv, serial_number, drive)
        changed == drives[serial_number].status # drive.status
        iem == IF changed THEN log_IEM(drive) ELSE [exc |-> "none", out |-> <<>>]
    IN  IF iem.exc # "none"
        THEN Outcome(drives, hpi, file, sent, iem.exc)
        ELSE Outcome(drives, hpi, serialize_disk_status(drives, file, order),
                     sent \o iem.out, "none")

\* lines 172-189: a drive-manager event whose path parsed
accept_drivemanager(drive, serial_number, drv, hpi, file, order) ==
    LET sent == <<Write(EGRESS, toDriveMngrJsonMsg(drive, None))>>
        changed == /\ serial_number \in DOMAIN drv
                   /\ drv[serial_number].status # drive.status
        iem == IF changed THEN log_IEM(drive) ELSE [exc |-> "none", out |-> <<>>]
        drives == Put(drv, serial_number, drive)
    IN  IF iem.exc # "none"
        THEN Outcome(drv, hpi, file, sent, iem.exc)
        ELSE Outcome(drives, hpi, serialize_disk_status(drives, file, order),
                     sent \o iem.out, "none")

\* disk_status_drivemanager without the return of line 143: an event_path
\* that fails parsing is logged and the event is handled all the same
disk_status_drivemanager_no_return(msg, drv, hpi, file, order) ==
    LET serial_number == msg.serial_number
        dropped == Outcome(drv, hpi, file, <<>>, "none")
    IN  IF msg.event_path # None
        THEN LET p == parse_drive_mngr_path(
                          Drive4(host_id, msg.event_path, msg.status, serial_number))
             IN  accept_drivemanager(p.drive, serial_number, drv, hpi, file, order)
        ELSE IF msg.object_path # None
        THEN LET event_path ==
                     IF serial_number \in DOMAIN hpi
                     THEN hpi[serial_number].enclosure \o <<Slash>> \o S_disk
                          \o <<Slash>> \o hpi[serial_number].drive_num
                          \o <<Slash>> \o S_status
                     ELSE <<"H", "P", "I", "d", "a", "t", "a", "N", "o", "t",
                            "A", "v", "a", "i", "l", "a", "b", "l", "e">>
                          \o <<Slash>> \o S_disk \o <<Slash, "-", "1", Slash>>
                          \o S_status
                 p == parse_drive_mngr_path(
                          Drive4(host_id, event_path, msg.status, serial_number))
             IN  IF ~p.valid THEN dropped
                 ELSE accept_drivemanager(p.drive, serial_number, drv, hpi, file, order)
        ELSE dropped

\* lines 119-189: sensor_response_type "disk_status_drivemanager"
disk_status_drivemanager(msg, drv, hpi, file, order) ==
    LET serial_number == msg.serial_number
        dropped == Outcome(drv, hpi, file, <<>>, "none")
    IN  IF msg.event_path # None
        THEN LET p == parse_drive_mngr_path(
                          Drive4(host_id, msg.event_path, msg.status, serial_number))
             IN  IF ~p.valid THEN dropped
                 ELSE accept_drivemanager(p.drive, serial_number, drv, hpi, file, order)
        ELSE IF msg.object_path # None
        THEN LET event_path ==
                     IF serial_number \in DOMAIN hpi
                     THEN hpi[serial_number].enclosure \o <<Slash>> \o S_disk
                          \o <<Slash>> \o hpi[serial_number].drive_num
                          \o <<Slash>> \o S_status
                     ELSE <<"H", "P", "I", "d", "a", "t", "a", "N", "o", "t",
                            "A", "v", "a", "i", "l", "a", "b", "l", "e">>
                          \o <<Slash>> \o S_disk \o <<Slash, "-", "1", Slash>>
                          \o S_status
                 p == parse_drive_mngr_path(
                          Drive4(host_id, event_path, msg.status, serial_number))
             IN  IF ~p.valid THEN dropped
                 ELSE accept_drivemanager(p.drive, serial_number, drv, hpi, file, order)
        ELSE dropped

\* disk_status_hpi with the transition detection of lines 180-183 added
\* before the update of line 235
disk_status_hpi_logs_change(msg, drv, hpi, file, order) ==
    LET p == parse_hpi_path(
                 Drive(host_id, msg.event_path, msg.status, msg.serialNumber,
                       msg.drawer, msg.location, msg.manufacturer,
                       msg.productName, msg.productVersion, msg.wwn))
        drive == p.drive
        serial_number == msg.serialNumber
        hpis == Put(hpi, serial_number, drive)
        event_path == drive.enclosure \o <<Slash>> \o S_disk \o <<Slash>>
                      \o drive.drive_num \o <<Slash>> \o S_status
        q == parse_drive_mngr_path(
                 Drive4(host_id, event_path, msg.status, serial_number))
        drives == Put(drv, serial_number, q.drive)
        changed == /\ serial_number \in DOMAIN drv
                   /\ drv[serial_number].status # msg.status
        iem == IF changed THEN log_IEM(q.drive) ELSE [exc |-> "none", out |-> <<>>]
    IN  IF ~p.valid THEN Outcome(drv, hpi, file, <<>>, "none")
        ELSE IF ~q.valid THEN Outcome(drv, hpis, file, <<>>, "none")
        ELSE IF iem.exc # "none" THEN Outcome(drv, hpis, file, <<>>, iem.exc)
        ELSE Outcome(drives, hpis, serialize_disk_status(drives, file, order),
                     iem.out \o <<Write(EGRESS, toHPIjsonMsg(drive, None))>>, "none")

\* disk_status_hpi with the synthesized path built without its "/status" leaf
disk_status_hpi_no_leaf(msg, drv, hpi, file, order) ==
    LET p == parse_hpi_path(
                 Drive(host_id, msg.event_path, msg.status, msg.serialNumber,
                       msg.drawer, msg.location, msg.manufacturer,
                       msg.productName, msg.productVersion, msg.wwn))
        drive == p.drive
        serial_number == msg.serialNumber
        hpis == Put(hpi, serial_number, drive)
        event_path == drive.enclosure \o <<Slash>> \o S_disk \o <<Slash>>
                      \o drive.drive_num
        q == parse_drive_mngr_path(
                 Drive4(host_id, event_path, msg.status, serial_number))
        drives == Put(drv, serial_number, q.drive)
    IN  IF ~p.valid THEN Outcome(drv, hpi, file, <<>>, "none")
        ELSE IF ~q.valid THEN Outcome(drv, hpis, file, <<>>, "none")
        ELSE Outcome(drives, hpis, serialize_disk_status(drives, file, order),
                     <<Write(EGRESS, toHPIjsonMsg(drive, None))>>, "none")

\* lines 192-245: sensor_response_type "disk_status_hpi"
disk_status_hpi(msg, drv, hpi, file, order) ==
    LET p == parse_hpi_path(
                 Drive(host_id, msg.event_path, msg.status, msg.serialNumber,
                       msg.drawer, msg.location, msg.manufacturer,
                       msg.productName, msg.productVersion, msg.wwn))
        drive == p.drive
        serial_number == msg.serialNumber
        hpis == Put(hpi, serial_number, drive)
        event_path == drive.enclosure \o <<Slash>> \o S_disk \o <<Slash>>
                      \o drive.drive_num \o <<Slash>> \o S_status
        q == parse_drive_mngr_path(
                 Drive4(host_id, event_path, msg.status, serial_number))
        drives == Put(drv, serial_number, q.drive)
    IN  IF ~p.valid THEN Outcome(drv, hpi, file, <<>>, "none")
        ELSE IF ~q.valid THEN Outcome(drv, hpis, file, <<>>, "none")
        ELSE Outcome(drives, hpis, serialize_disk_status(drives, file, order),
                     <<Write(EGRESS, toHPIjsonMsg(drive, None))>>, "none")

T_drivemanager == <<"disk_status_drivemanager">>

T_hpi == <<"disk_status_hpi">>

T_smart_test == <<"disk_smart_test">>

T_drvmngr_status == <<"drvmngr_status">>

T_hpi_status == <<"hpi_status">>

\* smart_response with the status compared as it is stored, without .lower()
smart_response_case_sensitive(status) ==
    IF status = S_inuse_ok \/ status = S_ok_none
    THEN "Passed" ELSE "Failed"

\* lines 271-275, 289-293: the SMART verdict of a stored status
smart_response(status) ==
    IF Lower(status) = S_inuse_ok \/ Lower(status) = S_ok_none
    THEN "Passed" ELSE "Failed"

\* lines 265-301: sensor_request_type "disk_smart_test"
disk_smart_test(serial_number, node_request, uuid, drv, order) ==
    LET keys == IterKeys(drv, order)
        ack(k) == Write(EGRESS,
                        AckResponseMsg(<<"SMART_TEST: serial number: ">>
                                       \o Str(drv[k].serialNumber)
                                       \o <<", IP: ">> \o Str(node_request),
                                       smart_response(drv[k].status), uuid))
        \* .lower() of a status that is no string raises AttributeError
        bad == {i \in 1..Len(keys) : ~IsStr(drv[keys[i]].status)}
        stop == IF bad = {} THEN Len(keys) + 1
                ELSE CHOOSE i \in bad : \A j \in bad : i <= j
    IN  IF serial_number = S_star
        THEN [out |-> [i \in 1..(stop - 1) |-> ack(keys[i])],
              exc |-> IF bad = {} THEN "none" ELSE "AttributeError"]
        ELSE IF serial_number \in DOMAIN drv
        THEN IF ~IsStr(drv[serial_number].status)
             THEN [out |-> <<>>, exc |-> "AttributeError"]
             ELSE [out |-> <<Write(EGRESS,
                                   AckResponseMsg(node_request,
                                       smart_response(drv[serial_number].status),
                                       uuid))>>,
                   exc |-> "none"]
        ELSE [out |-> <<Write(EGRESS,
                              AckResponseMsg(node_request,
                                  "Error: SMART results not yet available for drive, please try again later.",
                                  uuid))>>,
              exc |-> "none"]

\* drvmngr_status with the summary ack of lines 317-319 written before the
\* loop of lines 306-314
drvmngr_status_ack_first(serial_number, node_request, uuid, drv, order) ==
    LET keys == IterKeys(drv, order)
    IN  IF serial_number = S_star
        THEN [out |-> <<Write(EGRESS,
                              AckResponseMsg(node_request,
                                  "All Drive manager data sent successfully",
                                  uuid))>>
                      \o [i \in 1..Len(keys) |->
                             Write(EGRESS, toDriveMngrJsonMsg(drv[keys[i]], uuid))],
              exc |-> "none"]
        ELSE IF serial_number \notin DOMAIN drv
        THEN [out |-> <<>>, exc |-> "KeyError"]
        ELSE [out |-> <<Write(EGRESS, toDriveMngrJsonMsg(drv[serial_number], uuid)),
                        Write(EGRESS,
                              AckResponseMsg(node_request,
                                  "Drive manager data sent successfully", uuid))>>,
              exc |-> "none"]

\* lines 303-339: sensor_request_type "drvmngr_status"
drvmngr_status(serial_number, node_request, uuid, drv, order) ==
    LET keys == IterKeys(drv, order)
    IN  IF serial_number = S_star
        THEN [out |-> [i \in 1..Len(keys) |->
                          Write(EGRESS, toDriveMngrJsonMsg(drv[keys[i]], uuid))]
                      \o <<Write(EGRESS,
                                 AckResponseMsg(node_request,
                                     "All Drive manager data sent successfully",
                                     uuid))>>,
              exc |-> "none"]
        \* line 321 subscripts the dict: a missing key raises KeyError
        ELSE IF serial_number \notin DOMAIN drv
        THEN [out |-> <<>>, exc |-> "KeyError"]
        ELSE [out |-> <<Write(EGRESS, toDriveMngrJsonMsg(drv[serial_number], uuid)),
                        Write(EGRESS,
                              AckResponseMsg(node_request,
                                  "Drive manager data sent successfully", uuid))>>,
              exc |-> "none"]

\* hpi_status with toHPIjsonMsg called without uuid=uuid at lines 348 and 362
hpi_status_payload_no_uuid(serial_number, node_request, uuid, hpi, order) ==
    LET keys == IterKeys(hpi, order)
    IN  IF serial_number = S_star
        THEN [out |-> [i \in 1..Len(keys) |->
                          Write(EGRESS, toHPIjsonMsg(hpi[keys[i]], None))]
                      \o <<Write(EGRESS,
                                 AckResponseMsg(node_request,
                                     "All HPI data sent successfully", uuid))>>,
              exc |-> "none"]
        ELSE IF serial_number \notin DOMAIN hpi
        THEN [out |-> <<>>, exc |-> "KeyError"]
        ELSE [out |-> <<Write(EGRESS, toHPIjsonMsg(hpi[serial_number], None)),
                        Write(EGRESS,
                              AckResponseMsg(node_request,
                                  "Drive manager data sent successfully", uuid))>>,
              exc |-> "none"]

\* lines 341-377: sensor_request_type "hpi_status"
hpi_status(serial_number, node_request, uuid, hpi, order) ==
    LET keys == IterKeys(hpi, order)
    IN  IF serial_number = S_star
        THEN [out |-> [i \in 1..Len(keys) |->
                          Write(EGRESS, toHPIjsonMsg(hpi[keys[i]], uuid))]
                      \o <<Write(EGRESS,
                                 AckResponseMsg(node_request,
                                     "All HPI data sent successfully", uuid))>>,
              exc |-> "none"]
        \* line 359 subscripts the dict: a missing key raises KeyError
        ELSE IF serial_number \notin DOMAIN hpi
        THEN [out |-> <<>>, exc |-> "KeyError"]
        ELSE [out |-> <<Write(EGRESS, toHPIjsonMsg(hpi[serial_number], uuid)),
                        Write(EGRESS,
                              AckResponseMsg(node_request,
                                  "Drive manager data sent successfully", uuid))>>,
              exc |-> "none"]

\* sensor_request with _serialize_disk_status called once the request is
\* answered
sensor_request_serializes(msg, drv, hpi, file, order) ==
    LET sensor_request_type == msg.sensor_request_type
        serial_number == msg.serial_number
        node_request == msg.node_request
        uuid == msg.uuid
        r == IF sensor_request_type = T_smart_test
             THEN disk_smart_test(serial_number, node_request, uuid, drv, order)
             ELSE IF sensor_request_type = T_drvmngr_status
             THEN drvmngr_status(serial_number, node_request, uuid, drv, order)
             ELSE IF sensor_request_type = T_hpi_status
             THEN hpi_status(serial_number, node_request, uuid, hpi, order)
             ELSE [out |-> <<>>, exc |-> "none"]
    IN  Outcome(drv, hpi,
                IF r.exc = "none" THEN serialize_disk_status(drv, file, order) ELSE file,
                r.out, r.exc)

\* lines 251-377: a message with a sensor_request_type
sensor_request(msg, drv, hpi, file, order) ==
    LET sensor_request_type == msg.sensor_request_type
        serial_number == msg.serial_number
        node_request == msg.node_request
        uuid == msg.uuid
        r == IF sensor_request_type = T_smart_test
             THEN disk_smart_test(serial_number, node_request, uuid, drv, order)
             ELSE IF sensor_request_type = T_drvmngr_status
             THEN drvmngr_status(serial_number, node_request, uuid, drv, order)
             ELSE IF sensor_request_type = T_hpi_status
             THEN hpi_status(serial_number, node_request, uuid, hpi, order)
             ELSE [out |-> <<>>, exc |-> "none"]
    IN  Outcome(drv, hpi, file, r.out, r.exc)

\* lines 379-385: a message with neither key. node_request and uuid are
\* locals of _process_msg assigned only in the request branch, so line 384
\* reads an unbound local before anything is written
unknown_msg(msg, drv, hpi, file) ==
    Outcome(drv, hpi, file, <<>>, "UnboundLocalError")

\* _process_msg with every sensor_response_type other than "disk_status_hpi"
\* handled as a drive-manager event
process_msg_default_drivemanager(msg, drv, hpi, file, order) ==
    IF msg.sensor_response_type # None
    THEN IF msg.sensor_response_type = T_hpi
         THEN disk_status_hpi(msg, drv, hpi, file, order)
         ELSE disk_status_drivemanager(msg, drv, hpi, file, order)
    ELSE IF msg.sensor_request_type # None
    THEN sensor_request(msg, drv, hpi, file, order)
    ELSE unknown_msg(msg, drv, hpi, file)

\* _process_msg(jsonMsg) from the state (drv, hpi, file); order is the order
\* in which the dicts are iterated
process_msg(msg, drv, hpi, file, order) ==
    IF msg.sensor_response_type # None
    THEN IF msg.sensor_response_type = T_drivemanager
         THEN disk_status_drivemanager(msg, drv, hpi, file, order)
         ELSE IF msg.sensor_response_type = T_hpi
         THEN disk_status_hpi(msg, drv, hpi, file, order)
         ELSE Outcome(drv, hpi, file, <<>>, "none")
    ELSE IF msg.sensor_request_type # None
    THEN sensor_request(msg, drv, hpi, file, order)
    ELSE unknown_msg(msg, drv, hpi, file)

----------------------------------------------------------------------------
(* run(): one step per message read, per loop test and per rescheduling *)

\* the status stored in the drive-manager view drv for the serial number of
\* the event msg, None when there is no record or msg is no event
StoredStatus(msg, drv) ==
    LET sn == IF msg.sensor_response_type = T_drivemanager THEN msg.serial_number
              ELSE IF msg.sensor_response_type = T_hpi THEN msg.serialNumber
              ELSE None
    IN  IF sn \in DOMAIN drv THEN drv[sn].status ELSE None

\* Handle without the except clause of line 100: an exception ends the thread
HandleUncaught(order) ==
    \E r \in {process_msg(Head(msgQ), drvmngr_drives, hpi_drives, dmreport_file, order)} :
        /\ jsonMsg' = <<Head(msgQ)>>
        /\ msgQ' = Tail(msgQ)
        /\ drvmngr_drives' = r.drvmngr_drives
        /\ hpi_drives' = r.hpi_drives
        /\ dmreport_file' = r.dmreport_file
        /\ written' = r.written
        /\ raised' = r.raised
        /\ old_status' = StoredStatus(Head(msgQ), drvmngr_drives)
        /\ pc' = IF r.raised # "none" THEN "dead" ELSE "loop"

\* Handle with a message whose processing raised left at the head of the
\* queue, to be read again
HandleRetry(order) ==
    \E r \in {process_msg(Head(msgQ), drvmngr_drives, hpi_drives, dmreport_file, order)} :
        /\ jsonMsg' = <<Head(msgQ)>>
        /\ msgQ' = IF r.raised # "none" THEN msgQ ELSE Tail(msgQ)
        /\ drvmngr_drives' = r.drvmngr_drives
        /\ hpi_drives' = r.hpi_drives
        /\ dmreport_file' = r.dmreport_file
        /\ written' = r.written
        /\ raised' = r.raised
        /\ old_status' = StoredStatus(Head(msgQ), drvmngr_drives)
        /\ pc' = IF r.raised # "none" THEN "resched" ELSE "loop"

\* the queue hands its oldest message to _process_msg (lines 90-92, 96-98);
\* an exception leaves the try block for line 104
Handle(order) ==
    \E r \in {process_msg(Head(msgQ), drvmngr_drives, hpi_drives, dmreport_file, order)} :
        /\ jsonMsg' = <<Head(msgQ)>>
        /\ msgQ' = Tail(msgQ)
        /\ drvmngr_drives' = r.drvmngr_drives
        /\ hpi_drives' = r.hpi_drives
        /\ dmreport_file' = r.dmreport_file
        /\ written' = r.written
        /\ raised' = r.raised
        /\ old_status' = StoredStatus(Head(msgQ), drvmngr_drives)
        /\ pc' = IF r.raised # "none" THEN "resched" ELSE "loop"

----------------------------------------------------------------------------
(* Inputs *)

SN1 == <<"S", "1">>

SN2 == <<"S", "2">>

Serials == {SN1, SN2}

\* the orders in which a dict keyed by serial numbers may be iterated
Orders == {<<SN1, SN2>>, <<SN2, SN1>>}

ST_ok_none == S_ok_none

ST_failed == <<"F", "a", "i", "l", "e", "d", "_", "S", "M", "A", "R", "T", "_", "x">>

ST_bad == <<"b", "a", "d">>

\* a state _log_IEM has no branch for
ST_other == <<"n", "e", "w", "_", "x">>

Statuses == {ST_ok_none, ST_failed, ST_bad, ST_other}

P4 == <<"E", "1", "/", "d", "i", "s", "k", "/", "3", "/", "s", "t", "a", "t", "u", "s">>

P3 == <<"E", "1", "/", "d", "i", "s", "k", "/", "3">>

P2 == <<"E", "1", "/", "d", "i", "s", "k">>

NodeX == <<"X">>

U1 == <<"u", "1">>

\* a message none of whose keys is present: dict.get gives None for each
NoMsg ==
    [sensor_response_type |-> None, sensor_request_type |-> None,
     serial_number |-> None, serialNumber |-> None, status |-> None,
     event_path |-> None, object_path |-> None, drawer |-> None,
     location |-> None, manufacturer |-> None, productName |-> None,
     productVersion |-> None, wwn |-> None, node_request |-> None,
     uuid |-> None]

DmEvent(sn, st, path) ==
    [NoMsg EXCEPT !.sensor_response_type = T_drivemanager,
                  !.serial_number = sn, !.status = st, !.event_path = path]

DmObject(sn, st) ==
    [NoMsg EXCEPT !.sensor_response_type = T_drivemanager,
                  !.serial_number = sn, !.status = st,
                  !.object_path = <<"/", "o">>]

HpiEvent(sn, st, path) ==
    [NoMsg EXCEPT !.sensor_response_type = T_hpi, !.serialNumber = sn,
                  !.status = st, !.event_path = path,
                  !.drawer = <<"d">>, !.location = <<"l">>,
                  !.manufacturer = <<"m">>, !.productName = <<"p">>,
                  !.productVersion = <<"v">>, !.wwn = <<"w">>]

Request(type, sn, uuid) ==
    [NoMsg EXCEPT !.sensor_request_type = type, !.serial_number = sn,
                  !.node_request = NodeX, !.uuid = uuid]

OtherResponse == [NoMsg EXCEPT !.sensor_response_type = <<"other">>]

\* a well-formed drive-manager event but for its sensor_response_type
OtherEvent ==
    [DmEvent(SN1, ST_failed, P4) EXCEPT !.sensor_response_type = <<"disk_status">>]

Events ==
    {DmEvent(sn, st, P4) : sn \in Serials, st \in Statuses}
    \cup {DmObject(SN1, st) : st \in Statuses}
    \cup {DmEvent(SN1, ST_ok_none, P3), DmEvent(SN1, ST_ok_none, Int7),
          [DmEvent(SN1, ST_ok_none, None) EXCEPT !.object_path = None]}
    \cup {HpiEvent(sn, st, P3) : sn \in Serials, st \in Statuses}
    \cup {HpiEvent(SN1, ST_ok_none, P2), HpiEvent(SN1, ST_ok_none, None),
          HpiEvent(SN1, ST_ok_none, Int7)}
    \cup {OtherResponse, OtherEvent}

Requests ==
    {Request(type, sn, uuid) :
        type \in {T_smart_test, T_drvmngr_status, T_hpi_status},
        sn \in Serials \cup {S_star}, uuid \in {U1, None}}

Msgs == Events \cup Requests \cup {NoMsg}

----------------------------------------------------------------------------
(* The handler thread and its producers *)

Init ==
    /\ msgQ = <<>>
    /\ pc = "read"
    /\ jsonMsg = <<>>
    /\ drvmngr_drives = <<>>
    /\ hpi_drives = <<>>
    /\ dmreport_file = <<>>
    /\ written = <<>>
    /\ raised = "none"
    /\ old_status = None

\* another module puts msg on this module's queue
Enqueue(msg) ==
    /\ msgQ' = Append(msgQ, msg)
    /\ UNCHANGED <<pc, jsonMsg, drvmngr_drives, hpi_drives, dmreport_file, written, raised, old_status>>

\* lines 90-92: the blocking read returns and the message is processed
RunRead ==
    /\ pc = "read"
    /\ msgQ # <<>>
    /\ \E order \in Orders : Handle(order)

\* lines 95-98: the queue is not empty, the next message is processed
RunLoopRead ==
    /\ pc = "loop"
    /\ msgQ # <<>>
    /\ \E order \in Orders : Handle(order)

\* line 95: the queue is empty, the loop ends
RunLoopExit ==
    /\ pc = "loop"
    /\ msgQ = <<>>
    /\ pc' = "resched"
    /\ UNCHANGED <<msgQ, jsonMsg, drvmngr_drives, hpi_drives, dmreport_file, written, raised, old_status>>

\* lines 104-105: run() enters itself in the scheduler and returns; its
\* locals are gone
RunResched ==
    /\ pc = "resched"
    /\ pc' = "read"
    /\ jsonMsg' = <<>>
    /\ written' = <<>>
    /\ raised' = "none"
    /\ old_status' = None
    /\ UNCHANGED <<msgQ, drvmngr_drives, hpi_drives, dmreport_file>>

\* a producer delivers a message while the handler waits in its blocking read
Deliver ==
    /\ pc = "read"
    /\ msgQ = <<>>
    /\ \E msg \in Msgs : Enqueue(msg)

\* the producer repeats the message being handled (upstream polling)
Redeliver ==
    /\ pc = "loop"
    /\ msgQ = <<>>
    /\ Enqueue(jsonMsg[1])

Next == Deliver \/ Redeliver \/ RunRead \/ RunLoopRead \/ RunLoopExit \/ RunResched

Spec == Init /\ [][Next]_vars

----------------------------------------------------------------------------
(* The same handler under producers that enqueue at any time *)

MaxQueue == 2

QMsgs ==
    {DmEvent(SN1, ST_ok_none, P4), DmEvent(SN1, ST_bad, P4),
     Request(T_drvmngr_status, SN2, U1)}

\* a producer enqueues while the handler is anywhere in run()
Produce ==
    /\ Len(msgQ) < MaxQueue
    /\ \E msg \in QMsgs : Enqueue(msg)

QNext == Produce \/ RunRead \/ RunLoopRead \/ RunLoopExit \/ RunResched

QSpec == Init /\ [][QNext]_vars

\* ENABLED <<RunRead \/ RunLoopRead>>_vars, written out
ReadEnabled == pc \in {"read", "loop"} /\ msgQ # <<>>

\* The thread keeps running and the scheduler runs what run() entered at
\* line 104: weak fairness of the loop exit and the rescheduling, and of the
\* reads (WF of RunRead \/ RunLoopRead with its ENABLED as ReadEnabled).
FairQSpec ==
    /\ QSpec
    /\ WF_vars(RunLoopExit \/ RunResched)
    /\ ([]<>(~ReadEnabled) \/ []<><<RunRead \/ RunLoopRead>>_vars)

----------------------------------------------------------------------------
(* The same handler under events that cover the statuses _log_IEM and the
   SMART verdict tell apart, and disk_smart_test requests *)

ST_empty_none == <<"e", "m", "p", "t", "y", "_", "n", "o", "n", "e">>

ST_UNUSED_ok == <<"U", "N", "U", "S", "E", "D", "_", "o", "k">>

ST_OK_None == <<"O", "K", "_", "N", "o", "n", "e">>

ST_inuse_ok == <<"i", "n", "u", "s", "e", "_", "o", "k">>

ST_InUse_failed == <<"I", "n", "U", "s", "e", "_", "f", "a", "i", "l", "e", "d">>

ST_failed_smart == <<"f", "a", "i", "l", "e", "d", "_", "s", "m", "a", "r", "t">>

ST_FAILED_unknown == <<"F", "A", "I", "L", "E", "D", "_", "u", "n", "k", "n", "o", "w", "n">>

ST_ok_smart == <<"o", "k", "_", "s", "m", "a", "r", "t">>

ST_failed_ == <<"f", "a", "i", "l", "e", "d", "_">>

ST_InUse_OK == <<"I", "n", "U", "s", "e", "_", "O", "K">>

ST_ok_none_x == <<"o", "k", "_", "n", "o", "n", "e", "_", "x">>

\* statuses whose state _log_IEM has a branch for, in several cases of
\* letters, with reasons that hold "smart", do not, or are empty
IEMStatuses ==
    {ST_empty_none, ST_UNUSED_ok, ST_OK_None, ST_inuse_ok, ST_InUse_failed,
     ST_failed_smart, ST_failed, ST_FAILED_unknown, ST_ok_smart, ST_failed_}

StatusMsgs ==
    {DmEvent(SN1, st, P4) : st \in IEMStatuses}
    \cup {DmEvent(SN2, st, P4) : st \in {ST_InUse_OK, ST_ok_none_x}}
    \cup {Request(T_smart_test, sn, U1) : sn \in {S_star, SN1, SN2}}

\* a producer delivers a message of StatusMsgs while the handler waits in its
\* blocking read
StatusDeliver ==
    /\ pc = "read"
    /\ msgQ = <<>>
    /\ \E msg \in StatusMsgs : Enqueue(msg)

StatusNext ==
    StatusDeliver \/ Redeliver \/ RunRead \/ RunLoopRead \/ RunLoopExit \/ RunResched

StatusSpec == Init /\ [][StatusNext]_vars

----------------------------------------------------------------------------
(* The same handler under events that cover the shapes of a path *)

P5 == <<"E", "1", "/", "d", "i", "s", "k", "/", "3", "/", "s", "t", "a", "t", "u", "s", "/", "x">>

\* a four-segment path whose second and fourth segments are not "disk" and
\* "status"
PB4 == <<"B", "/", "c", "/", "4", "/", "f">>

\* four empty segments
PE4 == <<"/", "/", "/">>

\* three empty segments
PE3 == <<"/", "/">>

P1 == <<"E", "1">>

\* the empty string: one empty segment
P0 == <<>>

Paths == {P5, P4, PB4, PE4, P3, PE3, P2, P1, P0}

PathMsgs ==
    {DmEvent(sn, ST_ok_none, path) : sn \in Serials, path \in Paths}
    \cup {HpiEvent(sn, ST_ok_none, path) : sn \in Serials, path \in Paths}

\* a producer delivers a message of PathMsgs while the handler waits in its
\* blocking read
PathDeliver ==
    /\ pc = "read"
    /\ msgQ = <<>>
    /\ \E msg \in PathMsgs : Enqueue(msg)

PathNext ==
    PathDeliver \/ Redeliver \/ RunRead \/ RunLoopRead \/ RunLoopExit \/ RunResched

PathSpec == Init /\ [][PathNext]_vars

----------------------------------------------------------------------------
(* Vocabulary of the properties *)

\* this step hands Head(msgQ) to _process_msg
HandleStep == msgQ # <<>> /\ msgQ' = Tail(msgQ)

IsEvent(msg) == msg.sensor_response_type # None

IsRequest(msg) == msg.sensor_response_type = None /\ msg.sensor_request_type # None

HasSeparator(status) == IsStr(status) /\ FindChar(status, Underscore) # 0

Incidents(out) == {i \in DOMAIN out : out[i].to = LOGGING}

ViewsUnchanged == UNCHANGED <<drvmngr_drives, hpi_drives>>

\* the event's path fails parsing: too few segments, or no string
PathFails(msg) ==
    \/ /\ msg.sensor_response_type = T_drivemanager
       /\ msg.event_path # None
       /\ (~IsStr(msg.event_path) \/ Len(Split(msg.event_path, Slash)) < 4)
    \/ /\ msg.sensor_response_type = T_hpi
       /\ (~IsStr(msg.event_path) \/ Len(Split(msg.event_path, Slash)) < 3)

\* a drive-manager event whose path parses, or that is identified by object_path
DmParsed(msg) ==
    /\ msg.sensor_response_type = T_drivemanager
    /\ \/ msg.event_path # None /\ ~PathFails(msg)
       \/ msg.event_path = None /\ msg.object_path # None

----------------------------------------------------------------------------
(* C1 *)

\* C1: every serial number that is a key of _hpi_drives is a key of
\* _drvmngr_drives, and an inventory event either leaves both views as they
\* were or stores its drive in both (same status, enclosure and slot).
C1_HpiKeysInDrvmngr ==
    /\ [](DOMAIN hpi_drives \subseteq DOMAIN drvmngr_drives)
    /\ [][(HandleStep /\ Head(msgQ).sensor_response_type = T_hpi) =>
            LET sn == Head(msgQ).serialNumber
            IN  \/ ViewsUnchanged
                \/ /\ sn \in DOMAIN hpi_drives' /\ sn \in DOMAIN drvmngr_drives'
                   /\ hpi_drives'[sn].status = Head(msgQ).status
                   /\ drvmngr_drives'[sn].status = Head(msgQ).status
                   /\ drvmngr_drives'[sn].enclosure = hpi_drives'[sn].enclosure
                   /\ drvmngr_drives'[sn].drive_num = hpi_drives'[sn].drive_num]_vars

\* an accepted inventory event for SN2 was handled while SN2 had no
\* drive-manager event
C1_Witness ==
    /\ jsonMsg = <<HpiEvent(SN2, ST_failed, P3)>>
    /\ SN2 \in DOMAIN hpi_drives
    /\ drvmngr_drives[SN2].status = ST_failed
    /\ hpi_drives[SN2].path = P3

----------------------------------------------------------------------------
(* C2 *)

NotFoundAck(msg) ==
    <<Write(EGRESS,
            AckResponseMsg(msg.node_request,
                           IF msg.sensor_request_type = T_drvmngr_status
                           THEN "Drive not found in drive manager data"
                           ELSE "Drive not found in HPI data",
                           msg.uuid))>>

\* C2: a drvmngr_status or hpi_status request for a concrete serial number
\* that is no key of the respective view writes exactly the "drive not
\* found" ack with the request's uuid, and no exception leaves _process_msg.
C2_LookupMissAcked ==
    [][(/\ HandleStep
        /\ IsRequest(Head(msgQ))
        /\ Head(msgQ).serial_number # S_star
        /\ \/ /\ Head(msgQ).sensor_request_type = T_drvmngr_status
              /\ Head(msgQ).serial_number \notin DOMAIN drvmngr_drives
           \/ /\ Head(msgQ).sensor_request_type = T_hpi_status
              /\ Head(msgQ).serial_number \notin DOMAIN hpi_drives)
       => (raised' = "none" /\ written' = NotFoundAck(Head(msgQ)))]_vars

----------------------------------------------------------------------------
(* C3 *)

\* C3: a message with neither sensor_response_type nor sensor_request_type
\* writes exactly one ack to the egress queue and leaves both views unchanged.
C3_UnknownMsgAcked ==
    [][(/\ HandleStep
        /\ Head(msgQ).sensor_response_type = None
        /\ Head(msgQ).sensor_request_type = None)
       => (/\ Len(written') = 1
           /\ written'[1].to = EGRESS
           /\ written'[1].msg.kind = "AckResponseMsg"
           /\ ViewsUnchanged)]_vars

----------------------------------------------------------------------------
(* C4 *)

\* C4: an exception out of _process_msg consumes the message and takes run()
\* to its rescheduling, which restarts it; a message waiting when the
\* exception is raised is still the oldest when run() restarts; the oldest
\* message of a restarted run() is handed to _process_msg; and reads go on
\* for as long as the queue is not empty.
C4_ExceptionDoesNotStopEngine ==
    /\ [][(HandleStep /\ raised' # "none") => pc' = "resched"]_vars
    /\ [][pc = "resched" =>
            /\ pc' \in {"resched", "read"}
            /\ msgQ # <<>> => (msgQ' # <<>> /\ Head(msgQ') = Head(msgQ))]_vars
    /\ \A m \in QMsgs :
          (raised # "none" /\ msgQ # <<>> /\ Head(msgQ) = m)
              ~> (pc = "read" /\ jsonMsg = <<>> /\ msgQ # <<>> /\ Head(msgQ) = m)
    /\ \A m \in QMsgs :
          (pc = "read" /\ msgQ # <<>> /\ Head(msgQ) = m) ~> (jsonMsg = <<m>>)
    /\ ([]<>(msgQ = <<>>) \/ []<><<RunRead \/ RunLoopRead>>_vars)

\* a message raised an exception while another one waits in the queue
C4_Witness ==
    /\ raised = "KeyError"
    /\ pc = "resched"
    /\ msgQ # <<>>
    /\ Head(msgQ) = DmEvent(SN1, ST_ok_none, P4)

----------------------------------------------------------------------------
(* C5 *)

\* C5: a drive-manager event that parsed writes exactly one incident record
\* when the view holds a record for its serial number with another status,
\* and none otherwise.
C5_IncidentIffStatusChanged ==
    [][(HandleStep /\ DmParsed(Head(msgQ))) =>
        LET sn == Head(msgQ).serial_number
        IN  Cardinality(Incidents(written')) =
                IF /\ sn \in DOMAIN drvmngr_drives
                   /\ drvmngr_drives[sn].status # Head(msgQ).status
                THEN 1 ELSE 0]_vars

----------------------------------------------------------------------------
(* C6 *)

\* C6: an event handled right after the same event leaves both views as the
\* first handling left them and writes no incident record. An event during
\* whose handling an exception is raised changes neither view and writes no
\* incident record, so that handling it again starts from the same views.
C6_ReplayIdempotent ==
    /\ [][(/\ HandleStep
           /\ jsonMsg = <<Head(msgQ)>>
           /\ IsEvent(Head(msgQ)))
          => (ViewsUnchanged /\ Incidents(written') = {})]_vars
    /\ [][(HandleStep /\ IsEvent(Head(msgQ)) /\ raised' # "none")
          => (ViewsUnchanged /\ Incidents(written') = {})]_vars

\* a drive-manager event that changed a status and wrote an incident record
\* is in the queue again, about to be handled a second time
C6_Witness ==
    /\ pc = "loop"
    /\ jsonMsg = <<DmEvent(SN1, ST_failed, P4)>>
    /\ msgQ = jsonMsg
    /\ Incidents(written) # {}
    /\ drvmngr_drives[SN1].status = ST_failed

----------------------------------------------------------------------------
(* C7 *)

\* C7: an event whose path fails parsing writes nothing and leaves both views
\* unchanged, and every record of either view is what parsing its path gives.
C7_ParseFailureDropped ==
    /\ [][(HandleStep /\ PathFails(Head(msgQ)))
          => (written' = <<>> /\ ViewsUnchanged /\ raised' = "none")]_vars
    /\ [](/\ \A k \in DOMAIN drvmngr_drives :
               LET p == parse_drive_mngr_path(drvmngr_drives[k])
               IN  p.valid /\ p.drive = drvmngr_drives[k]
          /\ \A k \in DOMAIN hpi_drives :
               LET p == parse_hpi_path(hpi_drives[k])
               IN  p.valid /\ p.drive = hpi_drives[k])

\* a drive-manager event with a three-segment path was handled while the
\* views hold records
C7_Witness ==
    /\ jsonMsg = <<DmEvent(SN1, ST_ok_none, P3)>>
    /\ written = <<>>
    /\ SN1 \in DOMAIN drvmngr_drives
    /\ SN2 \in DOMAIN hpi_drives

----------------------------------------------------------------------------
(* C8 *)

\* C8: no exception leaves the handling of an event whose status has no '_'.
C8_NoSeparatorNoException ==
    [][(/\ HandleStep
        /\ IsEvent(Head(msgQ))
        /\ ~HasSeparator(Head(msgQ).status))
       => raised' = "none"]_vars

----------------------------------------------------------------------------
(* C9 *)

ReportEntry(drive) ==
    [serial_number |-> drive.serialNumber,
     status |-> Split1(drive.status, Underscore)[1],
     reason |-> Split1(drive.status, Underscore)[2]]

\* C9: after an accepted event the report holds exactly one entry for each
\* drive of the drive-manager view whose status contains '_', and no other.
C9_ReportHoldsEveryGoodDrive ==
    [][(/\ HandleStep
        /\ IsEvent(Head(msgQ))
        /\ raised' = "none"
        /\ written' # <<>>)
       => (/\ {dmreport_file'[i] : i \in DOMAIN dmreport_file'} =
                {ReportEntry(drvmngr_drives'[k]) :
                    k \in {x \in DOMAIN drvmngr_drives' :
                              HasSeparator(drvmngr_drives'[x].status)}}
           /\ Len(dmreport_file') =
                Cardinality({x \in DOMAIN drvmngr_drives' :
                                HasSeparator(drvmngr_drives'[x].status)}))]_vars

----------------------------------------------------------------------------
(* C10 *)

\* C10: when an accepted event writes the report (every stored status has a
\* '_'), each entry's status has no '_' and status + "_" + reason is the
\* status stored for its serial number in the drive-manager view.
C10_ReportRoundTrip ==
    [][(/\ HandleStep
        /\ IsEvent(Head(msgQ))
        /\ raised' = "none"
        /\ written' # <<>>
        /\ \A k \in DOMAIN drvmngr_drives' : HasSeparator(drvmngr_drives'[k].status))
       => (/\ Len(dmreport_file') = Cardinality(DOMAIN drvmngr_drives')
           /\ \A i \in DOMAIN dmreport_file' :
                LET e == dmreport_file'[i]
                IN  /\ e.serial_number \in DOMAIN drvmngr_drives'
                    /\ FindChar(e.status, Underscore) = 0
                    /\ e.status \o <<Underscore>> \o e.reason =
                           drvmngr_drives'[e.serial_number].status)]_vars

\* the report was written with a drive whose status has two '_'
C10_Witness ==
    /\ jsonMsg = <<DmEvent(SN2, ST_failed, P4)>>
    /\ raised = "none"
    /\ \E i \in DOMAIN dmreport_file :
          /\ dmreport_file[i].serial_number = SN2
          /\ dmreport_file[i].status = <<"F", "a", "i", "l", "e", "d">>
          /\ dmreport_file[i].reason = <<"S", "M", "A", "R", "T", "_", "x">>

----------------------------------------------------------------------------
(* C11 *)

\* C11: a drvmngr_status (hpi_status) request with serial "*" against a view
\* of N drives writes N + 1 messages, all to the egress queue: first the
\* status payload of each drive of the view, each drive once, carrying the
\* request's uuid, then the summary success ack; with N = 0 only the ack.
C11_WildcardFanOut ==
    [][(/\ HandleStep
        /\ IsRequest(Head(msgQ))
        /\ Head(msgQ).serial_number = S_star
        /\ Head(msgQ).sensor_request_type \in {T_drvmngr_status, T_hpi_status})
       => LET req == Head(msgQ)
              dm == req.sensor_request_type = T_drvmngr_status
              n == Cardinality(DOMAIN (IF dm THEN drvmngr_drives ELSE hpi_drives))
          IN  /\ raised' = "none"
              /\ Len(written') = n + 1
              /\ \A i \in 1..(n + 1) : written'[i].to = EGRESS
              /\ IF dm
                 THEN /\ \A i \in 1..n : \E k \in DOMAIN drvmngr_drives :
                            written'[i].msg = toDriveMngrJsonMsg(drvmngr_drives[k], req.uuid)
                      /\ {written'[i].msg.serial_number : i \in 1..n} = DOMAIN drvmngr_drives
                      /\ written'[n + 1].msg =
                            AckResponseMsg(req.node_request,
                                "All Drive manager data sent successfully", req.uuid)
                 ELSE /\ \A i \in 1..n : \E k \in DOMAIN hpi_drives :
                            written'[i].msg = toHPIjsonMsg(hpi_drives[k], req.uuid)
                      /\ {written'[i].msg.serialNumber : i \in 1..n} = DOMAIN hpi_drives
                      /\ written'[n + 1].msg =
                            AckResponseMsg(req.node_request,
                                "All HPI data sent successfully", req.uuid)]_vars

\* a wildcard drvmngr_status request was handled against a view of two
\* drives: two status payloads, then the summary ack
C11_Witness ==
    /\ jsonMsg = <<Request(T_drvmngr_status, S_star, U1)>>
    /\ DOMAIN drvmngr_drives = {SN1, SN2}
    /\ Len(written) = 3
    /\ written[1].msg.kind = "DriveMngrMsg"
    /\ written[2].msg.kind = "DriveMngrMsg"
    /\ written[3].msg.kind = "AckResponseMsg"

----------------------------------------------------------------------------
(* C12 *)

\* C12: whatever the handling of a drive-manager event writes begins with the
\* event's status payload on the egress queue, every incident record comes
\* after it, and _log_IEM is called (it writes an incident record or raises)
\* exactly when the view held, before this event's update, a record for the
\* serial number with another status.
C12_ForwardBeforeIncident ==
    [][(HandleStep /\ Head(msgQ).sensor_response_type = T_drivemanager) =>
        LET msg == Head(msgQ)
            sn == msg.serial_number
            called == Incidents(written') # {} \/ raised' # "none"
        IN  written' # <<>> =>
              /\ written'[1].to = EGRESS
              /\ written'[1].msg.kind = "DriveMngrMsg"
              /\ written'[1].msg.serial_number = sn
              /\ written'[1].msg.status = msg.status
              /\ \A i \in Incidents(written') : i > 1
              /\ called <=> (/\ sn \in DOMAIN drvmngr_drives
                             /\ drvmngr_drives[sn].status # msg.status)]_vars

\* a drive-manager event changed the status stored for SN1 from
\* "Failed_SMART_x" to "ok_none": the payload was written, then the incident
C12_Witness ==
    /\ jsonMsg = <<DmEvent(SN1, ST_ok_none, P4)>>
    /\ old_status = ST_failed
    /\ drvmngr_drives[SN1].status = ST_ok_none
    /\ Len(written) = 2
    /\ written[1].to = EGRESS
    /\ written[2].to = LOGGING

----------------------------------------------------------------------------
(* C13 *)

\* C13: the handling of a disk_status_hpi event writes nothing to the logging
\* module, whatever status the drive-manager view held for its serial
\* number; all it writes is its inventory payload, to the egress queue.
C13_HpiEventNoIncident ==
    [][(HandleStep /\ Head(msgQ).sensor_response_type = T_hpi) =>
        /\ Incidents(written') = {}
        /\ \A i \in DOMAIN written' :
              written'[i].to = EGRESS /\ written'[i].msg.kind = "HPIDataMsg"]_vars

\* an inventory event changed the status stored for SN1 in the
\* drive-manager view from "ok_none" to "Failed_SMART_x"
C13_Witness ==
    /\ jsonMsg = <<HpiEvent(SN1, ST_failed, P3)>>
    /\ old_status = ST_ok_none
    /\ drvmngr_drives[SN1].status = ST_failed
    /\ Len(written) = 1

----------------------------------------------------------------------------
(* C14 *)

\* C14: every message written while a request is handled goes to the egress
\* queue and carries the request's uuid; for a request without a uuid
\* (jsonMsg.get("uuid") is None) none of them carries one.
C14_UuidPropagated ==
    [][(HandleStep /\ IsRequest(Head(msgQ))) =>
        \A i \in DOMAIN written' :
            /\ written'[i].to = EGRESS
            /\ written'[i].msg.uuid = Head(msgQ).uuid]_vars

\* a wildcard hpi_status request with uuid "u1" was answered with two
\* inventory payloads and the ack, each carrying "u1"
C14_Witness ==
    /\ jsonMsg = <<Request(T_hpi_status, S_star, U1)>>
    /\ Len(written) = 3
    /\ written[1].msg.kind = "HPIDataMsg" /\ written[1].msg.uuid = U1
    /\ written[2].msg.kind = "HPIDataMsg" /\ written[2].msg.uuid = U1
    /\ written[3].msg.kind = "AckResponseMsg" /\ written[3].msg.uuid = U1

----------------------------------------------------------------------------
(* C15 *)

\* C15: when a drive-manager event changes the status stored for its serial
\* number to one whose state (the part before the first '_', in lower case)
\* is empty, unused, ok, inuse or failed, exactly one incident record is
\* written, after the payload, with the state and the reason as they were
\* received and the text: "Drive removed" for empty and unused; "Drive
\* added" for ok and inuse; "SMART validation test has failed" for failed
\* with a reason that holds "smart" in any case of letters; for failed with
\* another reason the unknown status/reason text followed by state "/" reason.
C15_IncidentTextByState ==
    [][(/\ HandleStep
        /\ DmParsed(Head(msgQ))
        /\ Head(msgQ).serial_number \in DOMAIN drvmngr_drives
        /\ drvmngr_drives[Head(msgQ).serial_number].status # Head(msgQ).status
        /\ HasSeparator(Head(msgQ).status)
        /\ Lower(Split1(Head(msgQ).status, Underscore)[1])
              \in {S_empty, S_unused, S_ok, S_inuse, S_failed})
       => LET parts == Split1(Head(msgQ).status, Underscore)
              state == Lower(parts[1])
              smart == Contains(Lower(parts[2]), S_smart)
          IN  /\ raised' = "none"
              /\ Len(written') = 2
              /\ written'[2].to = LOGGING
              /\ written'[2].msg.json_data.status = parts[1]
              /\ written'[2].msg.json_data.reason = parts[2]
              /\ state \in {S_empty, S_unused} =>
                    written'[2].msg.log_msg = <<"IEC: 020001002: Drive removed">>
              /\ state \in {S_ok, S_inuse} =>
                    written'[2].msg.log_msg = <<"IEC: 020001001: Drive added">>
              /\ (state = S_failed /\ smart) =>
                    written'[2].msg.log_msg =
                        <<"IEC: 020002002: SMART validation test has failed">>
              /\ (state = S_failed /\ ~smart) =>
                    written'[2].msg.log_msg =
                        <<"IEC: 000000000: Attempting to log unknown disk status/reason: ">>
                        \o parts[1] \o <<"/">> \o parts[2]]_vars

\* the status of SN1 changed from "UNUSED_ok" to "FAILED_unknown": the
\* incident carries the unknown status/reason text with "FAILED/unknown"
C15_Witness ==
    /\ jsonMsg = <<DmEvent(SN1, ST_FAILED_unknown, P4)>>
    /\ old_status = ST_UNUSED_ok
    /\ Len(written) = 2
    /\ written[2].msg.log_msg =
          <<"IEC: 000000000: Attempting to log unknown disk status/reason: ",
            "F", "A", "I", "L", "E", "D", "/", "u", "n", "k", "n", "o", "w", "n">>

----------------------------------------------------------------------------
(* C16 *)

\* C16: a disk_smart_test request writes only acks, to the egress queue.
\* With serial "*" it writes as many acks as the drive-manager view has
\* drives, exactly one naming each drive, "Passed" when that drive's status
\* in lower case is inuse_ok or ok_none and "Failed" otherwise. With a
\* concrete serial it writes one ack echoing node_request: the same verdict
\* when the view has the drive, the "not yet available" error when not.
C16_SmartTestAcks ==
    [][(/\ HandleStep
        /\ IsRequest(Head(msgQ))
        /\ Head(msgQ).sensor_request_type = T_smart_test)
       => LET req == Head(msgQ)
              sn == req.serial_number
              verdict(k) ==
                  IF Lower(drvmngr_drives[k].status) \in {S_inuse_ok, S_ok_none}
                  THEN "Passed" ELSE "Failed"
              names(k) == <<"SMART_TEST: serial number: ">> \o k
                          \o <<", IP: ">> \o req.node_request
          IN  /\ raised' = "none"
              /\ \A i \in DOMAIN written' :
                    /\ written'[i].to = EGRESS
                    /\ written'[i].msg.kind = "AckResponseMsg"
              /\ IF sn = S_star
                 THEN /\ Len(written') = Cardinality(DOMAIN drvmngr_drives)
                      /\ \A k \in DOMAIN drvmngr_drives :
                            /\ Cardinality({i \in DOMAIN written' :
                                                written'[i].msg.request = names(k)}) = 1
                            /\ \A i \in DOMAIN written' :
                                  written'[i].msg.request = names(k)
                                      => written'[i].msg.response = verdict(k)
                 ELSE /\ Len(written') = 1
                      /\ written'[1].msg.request = req.node_request
                      /\ written'[1].msg.response =
                            IF sn \in DOMAIN drvmngr_drives THEN verdict(sn)
                            ELSE "Error: SMART results not yet available for drive, please try again later."]_vars

\* a wildcard SMART request was answered for two drives: "OK_None" passed
\* and "ok_none_x" failed
C16_Witness ==
    /\ jsonMsg = <<Request(T_smart_test, S_star, U1)>>
    /\ DOMAIN drvmngr_drives = {SN1, SN2}
    /\ drvmngr_drives[SN1].status = ST_OK_None
    /\ drvmngr_drives[SN2].status = ST_ok_none_x
    /\ Len(written) = 2
    /\ {written[1].msg.response, written[2].msg.response} = {"Passed", "Failed"}

----------------------------------------------------------------------------
(* C17 *)

\* C17: an event whose sensor_response_type is neither
\* "disk_status_drivemanager" nor "disk_status_hpi" writes nothing, to the
\* egress queue or to the logging module, and leaves both views unchanged.
C17_OtherResponseDropped ==
    [][(/\ HandleStep
        /\ IsEvent(Head(msgQ))
        /\ Head(msgQ).sensor_response_type \notin {T_drivemanager, T_hpi})
       => (written' = <<>> /\ ViewsUnchanged)]_vars

\* an event of type "disk_status" that names SN1, a status other than the
\* stored one and a four-segment path was handled, and nothing was written
C17_Witness ==
    /\ jsonMsg = <<OtherEvent>>
    /\ pc = "loop"
    /\ written = <<>>
    /\ SN1 \in DOMAIN drvmngr_drives
    /\ drvmngr_drives[SN1].status = ST_ok_none

----------------------------------------------------------------------------
(* C18 *)

\* C18: for the path of a drive-manager event, a string: when it has at
\* least 4 segments between '/', parse_drive_mngr_path succeeds with
\* enclosure, slot and field the first, third and fourth segment, and that
\* record is the one stored; when it has fewer, parse_drive_mngr_path fails
\* with enclosure "N/A", slot -1 and field "N/A", and nothing is stored.
C18_DriveMngrPathParsed ==
    [][(/\ HandleStep
        /\ Head(msgQ).sensor_response_type = T_drivemanager
        /\ Head(msgQ).event_path # None
        /\ IsStr(Head(msgQ).event_path))
       => LET msg == Head(msgQ)
              segments == Split(msg.event_path, Slash)
              p == parse_drive_mngr_path(
                       Drive4(host_id, msg.event_path, msg.status, msg.serial_number))
          IN  IF Len(segments) >= 4
              THEN /\ p.valid
                   /\ p.drive.enclosure = segments[1]
                   /\ p.drive.drive_num = segments[3]
                   /\ p.drive.filename = segments[4]
                   /\ raised' = "none" => drvmngr_drives'[msg.serial_number] = p.drive
              ELSE /\ ~p.valid
                   /\ p.drive.enclosure = S_NA
                   /\ p.drive.drive_num = IntMinus1
                   /\ p.drive.filename = S_NA
                   /\ ViewsUnchanged]_vars

\* the five-segment path "E1/disk/3/status/x" was parsed and its record stored
C18_Witness ==
    /\ jsonMsg = <<DmEvent(SN1, ST_ok_none, P5)>>
    /\ drvmngr_drives[SN1].path = P5
    /\ drvmngr_drives[SN1].enclosure = <<"E", "1">>
    /\ drvmngr_drives[SN1].drive_num = <<"3">>
    /\ drvmngr_drives[SN1].filename = S_status

----------------------------------------------------------------------------
(* C19 *)

\* C19: for the path of an inventory event, a string: when it has at least
\* 3 segments between '/', parse_hpi_path succeeds with enclosure and slot
\* the first and third segment, and that record is the one stored in the
\* inventory view; when it has fewer, parse_hpi_path fails and nothing is
\* stored.
C19_HpiPathParsed ==
    [][(/\ HandleStep
        /\ Head(msgQ).sensor_response_type = T_hpi
        /\ IsStr(Head(msgQ).event_path))
       => LET msg == Head(msgQ)
              segments == Split(msg.event_path, Slash)
              p == parse_hpi_path(
                       Drive(host_id, msg.event_path, msg.status, msg.serialNumber,
                             msg.drawer, msg.location, msg.manufacturer,
                             msg.productName, msg.productVersion, msg.wwn))
          IN  IF Len(segments) >= 3
              THEN /\ p.valid
                   /\ p.drive.enclosure = segments[1]
                   /\ p.drive.drive_num = segments[3]
                   /\ hpi_drives'[msg.serialNumber] = p.drive
              ELSE /\ ~p.valid
                   /\ ViewsUnchanged]_vars

\* the path "B/c/4/f" of an inventory event was parsed and its record stored
C19_Witness ==
    /\ jsonMsg = <<HpiEvent(SN2, ST_ok_none, PB4)>>
    /\ hpi_drives[SN2].path = PB4
    /\ hpi_drives[SN2].enclosure = <<"B">>
    /\ hpi_drives[SN2].drive_num = <<"4">>

----------------------------------------------------------------------------
(* C20 *)

\* "S1" sorts before "S2"
SerialBefore(a, b) == a = SN1 /\ b = SN2

\* C20: the entries of the report are in the order of their serial numbers:
\* no entry comes after an entry whose serial number sorts after its own.
C20_ReportSortedByKey ==
    \A i, j \in DOMAIN dmreport_file :
        i < j => ~SerialBefore(dmreport_file[j].serial_number,
                               dmreport_file[i].serial_number)

----------------------------------------------------------------------------
(* C21 *)

S_HPIdataNotAvailable ==
    <<"H", "P", "I", "d", "a", "t", "a", "N", "o", "t", "A", "v", "a", "i", "l", "a", "b", "l", "e">>

\* C21: a drive-manager event identified by object_path is accepted: its
\* payload is forwarded and its record stored in the drive-manager view,
\* both with the enclosure and slot of the inventory view's record for the
\* serial number when there is one, and with enclosure "HPIdataNotAvailable"
\* and slot "-1" when there is none.
C21_ObjectPathRecord ==
    [][(/\ HandleStep
        /\ Head(msgQ).sensor_response_type = T_drivemanager
        /\ Head(msgQ).event_path = None
        /\ Head(msgQ).object_path # None)
       => LET msg == Head(msgQ)
              sn == msg.serial_number
              known == sn \in DOMAIN hpi_drives
              enclosure == IF known THEN hpi_drives[sn].enclosure
                           ELSE S_HPIdataNotAvailable
              slot == IF known THEN hpi_drives[sn].drive_num ELSE <<"-", "1">>
          IN  /\ written' # <<>>
              /\ written'[1].to = EGRESS
              /\ written'[1].msg.kind = "DriveMngrMsg"
              /\ written'[1].msg.enclosure = enclosure
              /\ written'[1].msg.drive_num = slot
              /\ written'[1].msg.status = msg.status
              /\ sn \in DOMAIN drvmngr_drives'
              /\ drvmngr_drives'[sn].enclosure = enclosure
              /\ drvmngr_drives'[sn].drive_num = slot
              /\ drvmngr_drives'[sn].status = msg.status]_vars

----------------------------------------------------------------------------
(* C22 *)

\* C22: every step is one of three. The handler takes the oldest message off
\* the queue and hands it to _process_msg, whether or not that raises, and
\* what it writes goes to the egress queue or the logging module, never to
\* its own queue. Or the handler moves on without a message: the queue, the
\* views and the report stay as they are and no message is handed over. Or a
\* producer appends a message and the handler does nothing.
C22_FifoAtMostOnce ==
    [][\/ /\ msgQ # <<>>
          /\ msgQ' = Tail(msgQ)
          /\ jsonMsg' = <<Head(msgQ)>>
          /\ \A i \in DOMAIN written' : written'[i].to \in {EGRESS, LOGGING}
       \/ /\ msgQ' = msgQ
          /\ jsonMsg' \in {jsonMsg, <<>>}
          /\ UNCHANGED <<drvmngr_drives, hpi_drives, dmreport_file>>
       \/ /\ \E m \in QMsgs : msgQ' = Append(msgQ, m)
          /\ UNCHANGED <<pc, jsonMsg, drvmngr_drives, hpi_drives, dmreport_file,
                         written, raised>>]_vars

\* the request for S2 raised KeyError and is gone from the queue, which holds
\* the two messages enqueued after it, in their order
C22_Witness ==
    /\ jsonMsg = <<Request(T_drvmngr_status, SN2, U1)>>
    /\ raised = "KeyError"
    /\ msgQ = <<DmEvent(SN1, ST_bad, P4), DmEvent(SN1, ST_ok_none, P4)>>

----------------------------------------------------------------------------
(* C23 *)

\* C23: when the handling of a drive-manager event has written the event's
\* status payload to the egress queue, the drive-manager view holds, at the
\* end of that handling, a record for the event's serial number with the
\* event's status.
C23_ForwardedIsStored ==
    [][(/\ HandleStep
        /\ Head(msgQ).sensor_response_type = T_drivemanager
        /\ \E i \in DOMAIN written' :
              /\ written'[i].to = EGRESS
              /\ written'[i].msg.kind = "DriveMngrMsg")
       => LET sn == Head(msgQ).serial_number
          IN  /\ sn \in DOMAIN drvmngr_drives'
              /\ drvmngr_drives'[sn].serialNumber = sn
              /\ drvmngr_drives'[sn].status = Head(msgQ).status]_vars

----------------------------------------------------------------------------
(* C24 *)

\* C24: the handling of a request, whatever its type and serial number and
\* whether or not it raises, leaves the drive-manager view, the inventory
\* view and the report as they were and writes nothing to the logging module.
C24_RequestChangesNothing ==
    [][(HandleStep /\ IsRequest(Head(msgQ))) =>
        /\ UNCHANGED <<drvmngr_drives, hpi_drives, dmreport_file>>
        /\ Incidents(written') = {}]_vars

\* a wildcard SMART request was answered for two drives while the report
\* lists only S1, written before a status without '_' was stored for S2
C24_Witness ==
    /\ jsonMsg = <<Request(T_smart_test, S_star, None)>>
    /\ Len(written) = 2
    /\ DOMAIN hpi_drives = {SN1}
    /\ drvmngr_drives[SN2].status = ST_bad
    /\ Len(dmreport_file) = 1
    /\ dmreport_file[1].serial_number = SN1

----------------------------------------------------------------------------
(* C25 *)

\* C25: no step removes a key from either view; a step that changes the
\* inventory view is the handling of a disk_status_hpi event whose path
\* parsed, and stores that event's record; and every record of either view
\* is stored under its own serial number.
C25_ViewsOnlyGrow ==
    /\ [][/\ DOMAIN drvmngr_drives \subseteq DOMAIN drvmngr_drives'
          /\ DOMAIN hpi_drives \subseteq DOMAIN hpi_drives']_vars
    /\ [][hpi_drives' # hpi_drives =>
            /\ HandleStep
            /\ Head(msgQ).sensor_response_type = T_hpi
            /\ ~PathFails(Head(msgQ))
            /\ \A k \in DOMAIN hpi_drives :
                  k # Head(msgQ).serialNumber => hpi_drives'[k] = hpi_drives[k]]_vars
    /\ [](/\ \A k \in DOMAIN drvmngr_drives : drvmngr_drives[k].serialNumber = k
          /\ \A k \in DOMAIN hpi_drives : hpi_drives[k].serialNumber = k)

\* an inventory event for S2 replaced the status "ok_none" by "new_x" while
\* both views hold S1 and S2
C25_Witness ==
    /\ jsonMsg = <<HpiEvent(SN2, ST_other, P3)>>
    /\ old_status = ST_ok_none
    /\ DOMAIN hpi_drives = {SN1, SN2}
    /\ DOMAIN drvmngr_drives = {SN1, SN2}
    /\ hpi_drives[SN2].status = ST_other

====
